---- MODULE Spec2Model ----
(***************************************************************************)
(* A model of bradford_white_connect_client: the authenticated-request     *)
(* lifecycle of BradfordWhiteConnectClient (client.py) and the heating     *)
(* modes lookup of BradfordWhiteConnectHelper (helper.py).                 *)
(*                                                                         *)
(* A call of a coroutine of the client runs without interruption between   *)
(* two awaits on the network (session.get, session.post) or on the sleep   *)
(* of the retry decorator, so one action of the model is one such run: it  *)
(* starts with a response (or a wake-up) being delivered and ends with the *)
(* next request being sent, the next sleep being started, or the operation *)
(* returning to its caller.                                                *)
(***************************************************************************)
EXTENDS Integers, Sequences, FiniteSets, TLC

VARIABLES
    token,            \* self.token of the one client object
    calls,            \* per caller: the operation in progress and its call stack
    pages,            \* the server's datapoint pages for the range being aggregated
    issued,           \* the access_token of the latest sign-in response that had one
    appliance_model,  \* argument of the last get_appliance_model_heating_modes call
    heating_modes     \* what that call returned

vars == <<token, calls, pages, issued, appliance_model, heating_modes>>

----------------------------------------------------------------------------
(* Bounds of the model. *)

\* how many times the sign-in endpoint may answer 401 during one top-level http call
MaxSignIn401 == 1
\* the longest chain of datapoint pages the server holds
MaxPages == 3
\* requests one of two concurrent callers sends
MaxConcRequests == 8

Calls == {1}

----------------------------------------------------------------------------
(* constants.py *)

HYBRID == 0
ELECTRIC == 1
HEAT_PUMP == 2
HYBRID_PLUS == 3
VACATION == 4

is_valid(value) == value \in {HYBRID, ELECTRIC, HEAT_PUMP, HYBRID_PLUS, VACATION}

----------------------------------------------------------------------------
(* helper.py *)

\* the table with its last entry left out
model_numbers_two_entries == <<"RE2H50S10-1NCWT", "RE2H65T10-1NCWT">>

model_numbers_without_hybrid_plus ==
    <<"RE2H50S10-1NCWT", "RE2H65T10-1NCWT", "RE2H80T10-1NCWT">>

InList(x, list) == \E i \in 1..Len(list) : list[i] = x

get_appliance_model_heating_modes(model) ==
    IF InList(model, model_numbers_without_hybrid_plus)
    THEN <<ELECTRIC, HEAT_PUMP, VACATION, HYBRID>>
    ELSE <<ELECTRIC, HEAT_PUMP, VACATION, HYBRID, HYBRID_PLUS>>

\* Model number strings: a series, a tank size and a suffix.  The three
\* excluded model numbers are among the combinations, the rest are unlisted.
ModelSeries == {"RE2H", "RE2h", "RE1H", "", "XE2H"}
ModelSizes == {"50S", "65T", "80T", "50T", ""}
ModelSuffixes == {"10-1NCWT", "10-1NCWW", "10-1ncwt", "10-1NCWT ", ""}
ModelNumbers == {a \o b \o c : a \in ModelSeries, b \in ModelSizes, c \in ModelSuffixes}

----------------------------------------------------------------------------
(* Python values *)

None == "None"

\* the exception classes a call can end with
UnknownError == "BradfordWhiteConnectUnknownException"
AuthenticationError == "BradfordWhiteConnectAuthenticationError"
HTTPError == "ClientResponseError"

Tokens == {"t1", "t2"}

\* f"auth_token {self.token}"; str(None) is "None"
FormatAuth(t) == "auth_token " \o t

----------------------------------------------------------------------------
(* Datapoint values: strings "<float>:<unit>", written as tuples of         *)
(* characters so that split and float can be computed.                      *)

Str15kWh == <<"1", ".", "5", ":", "k", "W", "h">>
Str20kWh == <<"2", ".", "0", ":", "k", "W", "h">>
Str05Wh == <<"0", ".", "5", ":", "W", "h", ":", "x">>
Str3kWh == <<"3", ":", "k", "W", "h">>

DatapointValues == {Str15kWh, Str20kWh, Str05Wh, Str3kWh}

\* index of the first occurrence of ch in s, 0 when there is none
RECURSIVE IndexFrom(_, _, _)
IndexFrom(s, ch, i) ==
    IF i > Len(s) THEN 0
    ELSE IF s[i] = ch THEN i
    ELSE IndexFrom(s, ch, i + 1)

\* value.split(":")[0]
SplitFirst(s, sep) ==
    LET i == IndexFrom(s, sep, 1)
    IN  IF i = 0 THEN s ELSE SubSeq(s, 1, i - 1)

DigitOf(ch) ==
    CASE ch = "0" -> 0 [] ch = "1" -> 1 [] ch = "2" -> 2 [] ch = "3" -> 3
      [] ch = "4" -> 4 [] ch = "5" -> 5 [] ch = "6" -> 6 [] ch = "7" -> 7
      [] ch = "8" -> 8 [] ch = "9" -> 9

RECURSIVE NatOf(_)
NatOf(s) == IF s = <<>> THEN 0 ELSE NatOf(SubSeq(s, 1, Len(s) - 1)) * 10 + DigitOf(s[Len(s)])

\* float(s) for a decimal numeral with at most one fractional digit, in tenths.
\* The values used are multiples of 0.5, whose float sums are exact.
FloatOf(s) ==
    LET dot == IndexFrom(s, ".", 1)
    IN  IF dot = 0 THEN NatOf(s) * 10
        ELSE NatOf(SubSeq(s, 1, dot - 1)) * 10
             + (IF dot = Len(s) THEN 0 ELSE DigitOf(s[dot + 1]))

\* the accumulation written "total = value_left" for "total += value_left"
SumDatapointsAssigned(total, datapoints) ==
    IF datapoints = <<>> THEN total
    ELSE FloatOf(SplitFirst(datapoints[Len(datapoints)], ":"))

\* the accumulation with the total set to 0.0 again for every page
RECURSIVE SumDatapointsReset(_, _)
SumDatapointsReset(total, datapoints) ==
    IF datapoints = <<>> THEN 0
    ELSE FloatOf(SplitFirst(Head(datapoints), ":")) + SumDatapointsReset(total, Tail(datapoints))

\* for item in response["datapoints"]: total += float(value.split(":")[0])
RECURSIVE SumDatapoints(_, _)
SumDatapoints(total, datapoints) ==
    IF datapoints = <<>> THEN total
    ELSE SumDatapoints(total + FloatOf(SplitFirst(Head(datapoints), ":")), Tail(datapoints))

----------------------------------------------------------------------------
(* Headers: a dict is a function from header names to values. *)

NoHeaders == [k \in {} |-> ""]

\* headers[k] = v
SetItem(headers, k, v) == (k :> v) @@ headers

\* the value a request carries for the authorization header
NoAuth == "<no authorization header>"
Authorization(headers) ==
    IF "authorization" \in DOMAIN headers THEN headers["authorization"] ELSE NoAuth

generate_headers(additional_headers) ==
    LET headers == ("Host" :> "ads-field.aylanetworks.com")
                   @@ ("accept" :> "*/*")
                   @@ ("user-agent" :> "BWConnect/1.2.6 (iPhone; iOS 17.5.1; Scale/3.00)")
                   @@ ("accept-language" :> "en;q=1, am-US;q=0.9")
    IN  additional_headers @@ headers      \* headers.update(additional_headers)

----------------------------------------------------------------------------
(* Endpoints *)

SignInUri == "https://user-field.aylanetworks.com/users/sign_in.json"
ApiHost == "https://ads-field.aylanetworks.com"
DevicesUri == ApiHost \o "/apiv1/devices.json"
PropertiesUri(dsn) == ApiHost \o "/apiv1/dsns/" \o dsn \o "/properties.json"
HeatModeUri(dsn, mode) ==
    ApiHost \o "/apiv1/dsns/" \o dsn \o "/properties/set_heat_mode_" \o ToString(mode)
            \o "/datapoints.json"
SetPointUri(dsn) == ApiHost \o "/apiv1/dsns/" \o dsn \o "/properties/water_setpoint_in/datapoints.json"
YearlyUri(dsn, type) == ApiHost \o "/apiv1/dsns/" \o dsn \o "/properties/daily_" \o type \o "e/datapoints"
HourlyUri(dsn, type) == ApiHost \o "/apiv1/dsns/" \o dsn \o "/properties/" \o type \o "_energy/datapoints"

\* the inputs the operations are called with
Dsn == "DSN1"
EnergyType == "hp"
HeatModes == {HYBRID, HYBRID_PLUS}
SetPoints == {120}

\* the values of next_page_url the server hands out, in the orders it links them
NextUrlA == ApiHost \o "/apiv1/datapoints?next=a"
NextUrlB == ApiHost \o "/apiv1/datapoints?next=b"
NextUrlC == ApiHost \o "/apiv1/datapoints?next=c"
NextUrls == {<<NextUrlA, NextUrlB, NextUrlC>>, <<NextUrlC, NextUrlB, NextUrlA>>}

\* JSON bodies of the device endpoints, left abstract
Bodies == {"json_a", "json_b"}

\* the datapoint lists a page can hold
PageDatapoints == {<<Str15kWh, Str20kWh>>, <<Str05Wh, Str3kWh>>}

\* url is truthy: "while url:"
Truthy(url) == url # None /\ url # ""

----------------------------------------------------------------------------
(* The retry decorator of http_get_request *)

\* the decorator retrying on every exception type
retry_if_any_exception(exc) == TRUE

\* the decorator retrying on both exception types of exceptions.py
retry_if_package_exception(exc) == exc \in {UnknownError, AuthenticationError}

\* retry=retry_if_exception_type(BradfordWhiteConnectUnknownException)
retry_if_exception_type(exc) == exc = UnknownError

max_attempt_number == 6
\* the stop test written with > for >=: one attempt more
stop_after_one_more(attempt_number) == attempt_number > max_attempt_number

\* stop=stop_after_attempt(6)
stop_after_attempt(attempt_number) == attempt_number >= max_attempt_number

\* wait=wait_fixed(10)
wait_fixed == 10

----------------------------------------------------------------------------
(* One caller's state: the operation it awaits and the coroutine frames     *)
(* below it.  The counters and last* fields record what went over the wire. *)

NoReq == [verb |-> "none", uri |-> None, headers |-> NoHeaders, retrying |-> FALSE, token |-> None]
NoResp == [uri |-> None, status |-> 0, body |-> None]
NoFail == [raised |-> FALSE, before |-> None, after |-> None]

IdleCall ==
    [op |-> "idle", stack |-> <<>>, headers |-> NoHeaders,
     url |-> None, total |-> 0, visited |-> <<>>,
     result |-> "none", retval |-> None, rettotal |-> <<>>,
     gets |-> 0, posts |-> 0, signins |-> 0, auths |-> 0, slept |-> 0,
     nreq |-> 0, nresp |-> 0, g401 |-> 0, s401 |-> 0,
     lastReq |-> NoReq, lastResp |-> NoResp, authFail |-> NoFail,
     opGets |-> 0, opAuths |-> 0, clean |-> TRUE, signed |-> None]

\* The counters gets .. s401 and authFail are those of the operation's current
\* top-level http call; an aggregation makes one such call per page.  Over the
\* whole operation opGets and opAuths count up to CounterCap, clean says
\* that every response so far had status 200, and signed is the access_token
\* of the latest sign-in response to this operation that had one.
CounterCap == MaxPages + 1
Count(n) == IF n < CounterCap THEN n + 1 ELSE n

\* every page requested with a header map of its own, built as the first was
NewHttpCallFreshHeaders(m) ==
    [m EXCEPT !.call.gets = 0, !.call.posts = 0, !.call.signins = 0, !.call.auths = 0,
              !.call.slept = 0, !.call.nreq = 0, !.call.nresp = 0, !.call.g401 = 0,
              !.call.s401 = 0, !.call.authFail = NoFail,
              !.call.headers = [h \in DOMAIN @ \ {"authorization"} |-> @[h]]]

NewHttpCall(m) ==
    [m EXCEPT !.call.gets = 0, !.call.posts = 0, !.call.signins = 0, !.call.auths = 0,
              !.call.slept = 0, !.call.nreq = 0, !.call.nresp = 0, !.call.g401 = 0,
              !.call.s401 = 0, !.call.authFail = NoFail]

Top(m) == m.call.stack[Len(m.call.stack)]

Pop(m) == [m EXCEPT !.call.stack = SubSeq(@, 1, Len(@) - 1)]

\* the frame on top is suspended in a call to the new frame f
PushFrame(m, f) ==
    [m EXCEPT !.call.stack =
        Append(IF @ = <<>> THEN @ ELSE [@ EXCEPT ![Len(@)].st = "call"], f)]

\* The headers dict a frame was passed: href 0 is the dict the operation
\* built, href i the dict the authenticate frame at stack[i] built.
Deref(call, href) == IF href = 0 THEN call.headers ELSE call.stack[href].headers

SetHeader(m, href, k, v) ==
    IF href = 0
    THEN [m EXCEPT !.call.headers = SetItem(@, k, v)]
    ELSE [m EXCEPT !.call.stack[href].headers = SetItem(@, k, v)]

\* the request goes out: self.session.get / self.session.post
Send(m, f) ==
    LET isGet == f.fn = "http_get_request"
        isSignIn == f.fn = "http_post_request" /\ f.uri = SignInUri
    IN  [m EXCEPT
            !.call.lastReq = [verb |-> IF isGet THEN "GET" ELSE "POST",
                              uri |-> f.uri,
                              headers |-> Deref(m.call, f.href),
                              retrying |-> f.retrying,
                              token |-> m.token],
            !.call.gets = IF isGet THEN @ + 1 ELSE @,
            !.call.opGets = IF isGet THEN Count(@) ELSE @,
            !.call.signins = IF isSignIn THEN @ + 1 ELSE @,
            !.call.posts = IF ~isGet /\ ~isSignIn THEN @ + 1 ELSE @,
            !.call.nreq = @ + 1]

\* a call of http_get_request or http_post_request, up to its first await
HttpCall(m, fn, uri, href, retrying_after_login) ==
    LET f == [fn |-> fn, uri |-> uri, href |-> href,
              retrying |-> retrying_after_login, attempt |-> 1, st |-> "await",
              headers |-> NoHeaders, tok0 |-> None]
    IN  Send(PushFrame(m, f), f)

\* a call of authenticate, up to the await of its sign-in POST
authenticate(m) ==
    LET f == [fn |-> "authenticate", uri |-> SignInUri, href |-> 0,
              retrying |-> FALSE, attempt |-> 0, st |-> "call",
              headers |-> generate_headers("content-type" :> "application/json"),
              tok0 |-> m.token]
        m1 == PushFrame([m EXCEPT !.call.auths = @ + 1, !.call.opAuths = Count(@)], f)
    IN  HttpCall(m1, "http_post_request", SignInUri, Len(m1.call.stack), FALSE)

\* the decorator without reraise=True: attempts exhausted, it raises RetryError
RECURSIVE RaiseRetryError(_, _)
RaiseRetryError(m, exc) ==
    LET s == m.call.stack
    IN  IF s = <<>>
        THEN [m EXCEPT !.call.result = exc]
        ELSE LET f == s[Len(s)]
             IN  IF f.fn = "http_get_request" /\ exc = UnknownError
                 THEN IF ~stop_after_attempt(f.attempt)
                      THEN [m EXCEPT !.call.stack[Len(s)].st = "sleep",
                                     !.call.slept = @ + wait_fixed]
                      ELSE RaiseRetryError(Pop(m), "RetryError")
                 ELSE RaiseRetryError(Pop(m), exc)

\* An exception leaves the frame on top.  Only the retry decorator of
\* http_get_request catches anything: it sleeps and runs the call again when
\* the exception is the retried type and attempts are left.
RECURSIVE Raise(_, _)
Raise(m, exc) ==
    LET s == m.call.stack
    IN  IF s = <<>>
        THEN [m EXCEPT !.call.result = exc]
        ELSE LET f == s[Len(s)]
             IN  IF /\ f.fn = "http_get_request"
                    /\ retry_if_exception_type(exc)
                    /\ ~stop_after_attempt(f.attempt)
                 THEN [m EXCEPT !.call.stack[Len(s)].st = "sleep",
                                !.call.slept = @ + wait_fixed]
                 ELSE Raise(Pop(m), exc)

\* the operation gets the value of its http call and runs to its next await
OpResume(m, value) ==
    LET c == m.call
    IN  CASE c.op \in {"get_devices", "get_device_properties", "set_device_heat_mode"} ->
               [m EXCEPT !.call.result = "returned", !.call.retval = value]
          [] c.op \in {"update_device_set_point", "authenticate"} ->
               [m EXCEPT !.call.result = "returned"]
          [] c.op = "get_yearly_energy" ->
               LET total == SumDatapoints(0, value.datapoints)
               IN  [m EXCEPT !.call.result = "returned", !.call.total = total,
                             !.call.rettotal = <<total>>]
          [] c.op = "get_hourly_energy_usage" ->
               LET total == SumDatapoints(c.total, value.datapoints)
                   url == value.next_page_url
                   m1 == [m EXCEPT !.call.total = total, !.call.url = url]
               IN  IF Truthy(url)
                   THEN HttpCall(NewHttpCall([m1 EXCEPT !.call.visited = Append(@, url)]),
                                 "http_get_request", url, 0, FALSE)
                   ELSE [m1 EXCEPT !.call.result = "returned", !.call.rettotal = <<total>>]

\* authenticate with self.token assigned before the test of access_token
AuthResumeAssignFirst(m, responseJson) ==
    LET g == Top(m)
        m0 == [m EXCEPT !.token = responseJson.access_token]
    IN  IF responseJson.access_token = None
        THEN Raise([m0 EXCEPT !.call.authFail =
                        [raised |-> TRUE, before |-> g.tok0, after |-> m0.token]],
                   AuthenticationError)
        ELSE LET m1 == Pop(m0)
                 s == m1.call.stack
             IN  IF s = <<>>
                 THEN OpResume(m1, None)
                 ELSE LET h == s[Len(s)]
                          m2 == SetHeader(m1, h.href, "authorization", FormatAuth(m1.token))
                      IN  HttpCall(m2, h.fn, h.uri, h.href, TRUE)

\* authenticate leaving the token alone when it changed during the sign-in
AuthResumeKeepNewer(m, responseJson) ==
    LET g == Top(m)
    IN  IF responseJson.access_token = None
        THEN Raise([m EXCEPT !.call.authFail =
                        [raised |-> TRUE, before |-> g.tok0, after |-> m.token]],
                   AuthenticationError)
        ELSE LET m1 == Pop([m EXCEPT !.token = IF @ = g.tok0
                                               THEN responseJson.access_token ELSE @])
                 s == m1.call.stack
             IN  IF s = <<>>
                 THEN OpResume(m1, None)
                 ELSE LET h == s[Len(s)]
                          m2 == SetHeader(m1, h.href, "authorization", FormatAuth(m1.token))
                      IN  HttpCall(m2, h.fn, h.uri, h.href, TRUE)

\* the 401 branch patching the header with the token read before the sign-in
AuthResumeStaleHeader(m, responseJson) ==
    LET g == Top(m)
    IN  IF responseJson.access_token = None
        THEN Raise([m EXCEPT !.call.authFail =
                        [raised |-> TRUE, before |-> g.tok0, after |-> m.token]],
                   AuthenticationError)
        ELSE LET m1 == Pop([m EXCEPT !.token = responseJson.access_token])
                 s == m1.call.stack
             IN  IF s = <<>>
                 THEN OpResume(m1, None)
                 ELSE LET h == s[Len(s)]
                          m2 == SetHeader(m1, h.href, "authorization", FormatAuth(g.tok0))
                      IN  HttpCall(m2, h.fn, h.uri, h.href, TRUE)

\* authenticate gets the JSON of its sign-in POST
AuthResume(m, responseJson) ==
    LET g == Top(m)
    IN  IF responseJson.access_token = None
        THEN Raise([m EXCEPT !.call.authFail =
                        [raised |-> TRUE, before |-> g.tok0, after |-> m.token]],
                   AuthenticationError)
        ELSE LET m1 == Pop([m EXCEPT !.token = responseJson.access_token])
                 s == m1.call.stack
             IN  IF s = <<>>
                 THEN OpResume(m1, None)
                 ELSE \* back in the 401 branch of the http call that awaited authenticate
                      LET h == s[Len(s)]
                          m2 == SetHeader(m1, h.href, "authorization", FormatAuth(m1.token))
                      IN  HttpCall(m2, h.fn, h.uri, h.href, TRUE)

\* the http call on top returns value to the frame that awaits it
RECURSIVE Return(_, _)
Return(m, value) ==
    LET m1 == Pop(m)
        s == m1.call.stack
    IN  IF s = <<>> THEN OpResume(m1, value)
        ELSE IF s[Len(s)].fn = "authenticate" THEN AuthResume(m1, value)
        ELSE Return(m1, value)   \* return await self.http_..._request(..., True)

Received(m, resp) ==
    LET f == Top(m)
        signin == f.uri = SignInUri
    IN  [m EXCEPT !.call.nresp = @ + 1,
                  !.call.clean = @ /\ resp.status = 200,
                  !.call.signed = IF signin /\ resp.status = 200 /\ resp.body.access_token # None
                                  THEN resp.body.access_token ELSE @,
                  !.call.lastResp = [uri |-> f.uri, status |-> resp.status, body |-> resp.body],
                  !.call.g401 = IF resp.status = 401 /\ f.fn = "http_get_request" THEN @ + 1 ELSE @,
                  !.call.s401 = IF resp.status = 401 /\ signin THEN @ + 1 ELSE @]

\* http_get_request with the test of retrying_after_login inverted
http_get_request_inverted(m, response) ==
    IF response.status = 401
    THEN IF ~Top(m).retrying
         THEN Raise(m, UnknownError)
         ELSE authenticate(m)
    ELSE IF response.status >= 400
         THEN Raise(m, HTTPError)
         ELSE Return(m, response.body)

\* http_get_request from the response of session.get on
http_get_request(m, response) ==
    LET retrying_after_login == Top(m).retrying
    IN  IF response.status = 401
        THEN IF retrying_after_login
             THEN Raise(m, UnknownError)
             ELSE authenticate(m)
        ELSE IF response.status >= 400      \* response.raise_for_status()
             THEN Raise(m, HTTPError)
             ELSE Return(m, response.body)

\* http_post_request under the retry decorator of http_get_request
http_post_request_retried(m, response) ==
    LET f == Top(m)
    IN  IF response.status = 401
        THEN IF f.retrying
             THEN IF ~stop_after_attempt(f.attempt)
                  THEN [m EXCEPT !.call.stack[Len(m.call.stack)].st = "sleep",
                                 !.call.slept = @ + wait_fixed]
                  ELSE Raise(m, UnknownError)
             ELSE authenticate(m)
        ELSE IF response.status >= 400
             THEN Raise(m, HTTPError)
             ELSE Return(m, response.body)

\* http_post_request from the response of session.post on
http_post_request(m, response) ==
    LET retrying_after_login == Top(m).retrying
    IN  IF response.status = 401
        THEN IF retrying_after_login
             THEN Raise(m, UnknownError)
             ELSE authenticate(m)
        ELSE IF response.status >= 400      \* response.raise_for_status()
             THEN Raise(m, HTTPError)
             ELSE Return(m, response.body)

\* the retry decorator runs the call again after its sleep
Retry(m) ==
    LET n == Len(m.call.stack)
        f == [m.call.stack[n] EXCEPT !.attempt = @ + 1, !.st = "await"]
    IN  Send([m EXCEPT !.call.stack[n] = f], f)

----------------------------------------------------------------------------
(* The server *)

\* chains of page urls: the url the client builds, then distinct next_page_urls
UrlChains ==
    {<<HourlyUri(Dsn, EnergyType)>> \o SubSeq(next, 1, n) :
        next \in NextUrls, n \in {i \in 0..3 : i < MaxPages}}

IndexOf(chain, u) == CHOOSE i \in 1..Len(chain) : chain[i] = u

\* the pages the server holds: each names the next one, the last names none
PagesOf(chain, content) ==
    [u \in {chain[i] : i \in 1..Len(chain)} |->
        LET i == IndexOf(chain, u)
        IN  [datapoints |-> content[i],
             next_page_url |-> IF i < Len(chain) THEN chain[i + 1] ELSE None]]

NoPages == [u \in {} |-> None]

Statuses == {200, 401, 500}

\* what the device API may answer to a request for uri
ApiResponses(uri) ==
    {[status |-> 200, body |-> b] :
        b \in IF uri \in DOMAIN pages THEN {pages[uri]} ELSE Bodies}
    \cup {[status |-> st, body |-> None] : st \in Statuses \ {200}}

\* what the sign-in endpoint may answer
SignInResponses(call) ==
    {[status |-> 200, body |-> [access_token |-> t]] : t \in Tokens \cup {None}}
    \cup {[status |-> 500, body |-> None]}
    \cup (IF call.s401 < MaxSignIn401 THEN {[status |-> 401, body |-> None]} ELSE {})

\* the token the sign-in endpoint has handed out last, after response
Issue(response) ==
    IF response.status = 200 /\ response.body.access_token # None
    THEN response.body.access_token
    ELSE issued

----------------------------------------------------------------------------
(* Actions *)

Machine(c) == [call |-> calls[c], token |-> token]

Step(c, m) ==
    /\ calls' = [calls EXCEPT ![c] = m.call]
    /\ token' = m.token

Idle(c) == calls[c].op = "idle"
Awaiting(c, fn) ==
    /\ calls[c].result = "none"
    /\ calls[c].stack # <<>>
    /\ Top(Machine(c)).fn = fn
    /\ Top(Machine(c)).st = "await"

Begin(c, op, headers) ==
    [Machine(c) EXCEPT !.call.op = op, !.call.headers = headers]

Authenticate(c) ==
    /\ Idle(c)
    /\ Step(c, authenticate(Begin(c, "authenticate", NoHeaders)))
    /\ UNCHANGED <<pages, issued, appliance_model, heating_modes>>

GetDevices(c) ==
    /\ Idle(c)
    /\ Step(c, HttpCall(Begin(c, "get_devices", generate_headers(NoHeaders)),
                        "http_get_request", DevicesUri, 0, FALSE))
    /\ UNCHANGED <<pages, issued, appliance_model, heating_modes>>

GetDeviceProperties(c) ==
    /\ Idle(c)
    /\ Step(c, HttpCall(Begin(c, "get_device_properties", generate_headers(NoHeaders)),
                        "http_get_request", PropertiesUri(Dsn), 0, FALSE))
    /\ UNCHANGED <<pages, issued, appliance_model, heating_modes>>

MobileHeaders == ("content-type" :> "application/json") @@ ("x-ayla-source" :> "Mobile")

SetDeviceHeatMode(c) ==
    /\ Idle(c)
    /\ \E mode \in HeatModes :
         Step(c, HttpCall(Begin(c, "set_device_heat_mode", generate_headers(MobileHeaders)),
                          "http_post_request", HeatModeUri(Dsn, mode), 0, FALSE))
    /\ UNCHANGED <<pages, issued, appliance_model, heating_modes>>

UpdateDeviceSetPoint(c) ==
    /\ Idle(c)
    /\ \E value \in SetPoints :
         Step(c, HttpCall(Begin(c, "update_device_set_point", generate_headers(MobileHeaders)),
                          "http_post_request", SetPointUri(Dsn), 0, FALSE))
    /\ UNCHANGED <<pages, issued, appliance_model, heating_modes>>

EnergyHeaders == ("accept" :> "application/json,description")

GetYearlyEnergy(c) ==
    /\ Idle(c)
    /\ \E d \in PageDatapoints \cup {<<>>} :
         pages' = (YearlyUri(Dsn, EnergyType) :> [datapoints |-> d, next_page_url |-> None])
    /\ Step(c, HttpCall(Begin(c, "get_yearly_energy", generate_headers(EnergyHeaders)),
                        "http_get_request", YearlyUri(Dsn, EnergyType), 0, FALSE))
    /\ UNCHANGED <<issued, appliance_model, heating_modes>>

GetHourlyEnergyUsage(c) ==
    /\ Idle(c)
    /\ \E chain \in UrlChains :
         \E content \in [1..Len(chain) -> PageDatapoints] :
            pages' = PagesOf(chain, content)
    /\ LET url == HourlyUri(Dsn, EnergyType)
           m == Begin(c, "get_hourly_energy_usage", generate_headers(EnergyHeaders))
       IN  Step(c, HttpCall([m EXCEPT !.call.url = url, !.call.visited = <<url>>],
                            "http_get_request", url, 0, FALSE))
    /\ UNCHANGED <<issued, appliance_model, heating_modes>>

GetResponse(c) ==
    /\ Awaiting(c, "http_get_request")
    /\ \E response \in ApiResponses(Top(Machine(c)).uri) :
         Step(c, http_get_request(Received(Machine(c), response), response))
    /\ UNCHANGED <<pages, issued, appliance_model, heating_modes>>

PostResponse(c) ==
    /\ Awaiting(c, "http_post_request")
    /\ Top(Machine(c)).uri # SignInUri
    /\ \E response \in ApiResponses(Top(Machine(c)).uri) :
         Step(c, http_post_request(Received(Machine(c), response), response))
    /\ UNCHANGED <<pages, issued, appliance_model, heating_modes>>

SignInResponse(c) ==
    /\ Awaiting(c, "http_post_request")
    /\ Top(Machine(c)).uri = SignInUri
    /\ \E response \in SignInResponses(calls[c]) :
         /\ Step(c, http_post_request(Received(Machine(c), response), response))
         /\ issued' = Issue(response)
    /\ UNCHANGED <<pages, appliance_model, heating_modes>>

\* the sleep of the retry decorator ends
WakeUp(c) ==
    /\ calls[c].result = "none"
    /\ calls[c].stack # <<>>
    /\ Top(Machine(c)).st = "sleep"
    /\ Step(c, Retry(Machine(c)))
    /\ UNCHANGED <<pages, issued, appliance_model, heating_modes>>

\* the caller takes the result; the client keeps its token
Finish(c) ==
    /\ calls[c].result # "none"
    /\ calls' = [calls EXCEPT ![c] = IdleCall]
    /\ pages' = NoPages
    /\ UNCHANGED <<token, issued, appliance_model, heating_modes>>

Init ==
    /\ token = None
    /\ calls = [c \in Calls |-> IdleCall]
    /\ pages = NoPages
    /\ issued = None
    /\ appliance_model = None
    /\ heating_modes = <<>>

Next ==
    \E c \in Calls :
        \/ Authenticate(c)
        \/ GetDevices(c)
        \/ GetDeviceProperties(c)
        \/ SetDeviceHeatMode(c)
        \/ UpdateDeviceSetPoint(c)
        \/ GetYearlyEnergy(c)
        \/ GetHourlyEnergyUsage(c)
        \/ GetResponse(c)
        \/ PostResponse(c)
        \/ SignInResponse(c)
        \/ WakeUp(c)
        \/ Finish(c)

Spec == Init /\ [][Next]_vars

----------------------------------------------------------------------------
(* The heating modes lookup, a pure function, applied to every model number *)

InitHelper ==
    /\ token = None
    /\ calls = [c \in Calls |-> IdleCall]
    /\ pages = NoPages
    /\ issued = None
    /\ appliance_model \in ModelNumbers
    /\ heating_modes = <<>>

GetApplianceModelHeatingModes ==
    /\ heating_modes = <<>>
    /\ heating_modes' = get_appliance_model_heating_modes(appliance_model)
    /\ UNCHANGED <<token, calls, pages, issued, appliance_model>>

NextHelper == GetApplianceModelHeatingModes

SpecHelper == InitHelper /\ [][NextHelper]_vars

----------------------------------------------------------------------------
(* Properties *)

\* the operations whose top-level http call is a GET
GetOps == {"get_devices", "get_device_properties", "get_yearly_energy",
           "get_hourly_energy_usage"}
JsonOps == {"get_devices", "get_device_properties"}
Errors == {UnknownError, AuthenticationError, HTTPError}

\* C1: once authenticate() has set the token t, every request an operation
\* sends to the device API, the first one included, carries
\* authorization = "auth_token t".
C1_AuthorizationOnEveryRequest ==
    \A c \in Calls :
        LET r == calls[c].lastReq
        IN  (r.verb # "none" /\ r.uri # SignInUri /\ r.token # None)
                => Authorization(r.headers) = FormatAuth(r.token)

\* C2: a top-level GET answered 401 once and then 200, the sign-in in between
\* returning a token at once, returns the JSON of the 200 response after
\* exactly one authenticate(), one sign-in request and two GETs, the second
\* sent with retrying_after_login = true.
C2_ReauthenticateOnce ==
    \A c \in Calls :
        LET k == calls[c]
        IN  (/\ k.op \in GetOps
             /\ k.g401 = 1
             /\ k.s401 = 0
             /\ k.lastResp.uri # SignInUri
             /\ k.lastResp.status = 200)
            => /\ k.result = "returned"
               /\ k.op \in JsonOps => k.retval = k.lastResp.body
               /\ k.auths = 1
               /\ k.signins = 1
               /\ k.gets = 2
               /\ k.lastReq.verb = "GET"
               /\ k.lastReq.retrying

C2_Witness ==
    \E c \in Calls :
        /\ calls[c].op = "get_devices"
        /\ calls[c].g401 = 1
        /\ calls[c].s401 = 0
        /\ calls[c].lastResp.uri = DevicesUri
        /\ calls[c].lastResp.status = 200
        /\ calls[c].result = "returned"
        /\ calls[c].retval = "json_b"

\* C3: a top-level GET to which every GET response is 401 and every sign-in
\* returns a token sends at most 12 GETs and at most 6 sign-in requests, and
\* ends with UnknownError.
C3_AtMostTwelveGets ==
    \A c \in Calls :
        LET k == calls[c]
        IN  (k.op \in GetOps /\ k.s401 = 0)
                => /\ k.gets <= 2 * max_attempt_number
                   /\ k.signins <= max_attempt_number
                   /\ (k.result # "none" /\ k.lastResp.status = 401)
                          => k.result = UnknownError

\* C4: one call of authenticate() sends exactly one sign-in request and never
\* invokes authenticate() again, whatever the sign-in endpoint answers.
C4_AuthenticateOnePost ==
    \A c \in Calls :
        calls[c].op = "authenticate"
            => /\ calls[c].auths <= 1
               /\ calls[c].signins <= 1

\* C5: when the sign-in response has no access_token, authenticate() fails
\* with AuthenticationError and the token is what it was before the call.
C5_FailedSignInKeepsToken ==
    \A c \in Calls :
        calls[c].authFail.raised
            => /\ calls[c].result = AuthenticationError
               /\ calls[c].authFail.after = calls[c].authFail.before

\* C6: a GET or POST answered with a non-401 error status fails with HTTPError
\* in the step that receives the response: no request is sent, authenticate()
\* is not invoked and no sleep starts, for the first request and for the one
\* re-sent after login alike.
C6_HttpErrorNotRetried ==
    [][\A c \in Calls :
         (/\ calls'[c].nresp = calls[c].nresp + 1
          /\ calls'[c].lastResp.status \notin {200, 401})
         => /\ calls'[c].result = HTTPError
            /\ calls'[c].stack = <<>>
            /\ calls'[c].nreq = calls[c].nreq
            /\ calls'[c].auths = calls[c].auths
            /\ calls'[c].slept = calls[c].slept
            /\ token' = token]_vars

C6_Witness ==
    \E c \in Calls :
        /\ calls[c].lastResp.status = 500
        /\ calls[c].lastReq.verb = "GET"
        /\ calls[c].lastReq.retrying
        /\ calls[c].result = HTTPError

\* C7: when the authenticate() a 401'd GET triggers fails for want of an
\* access_token, the AuthenticationError reaches the caller in that step: no
\* sleep, no further attempt or request; and if that sign-in was the call's
\* first, exactly one GET and one sign-in request were sent.
C7_AuthenticationErrorNotRetried ==
    [][\A c \in Calls :
         (/\ calls[c].op \in GetOps
          /\ ~calls[c].authFail.raised
          /\ calls'[c].authFail.raised)
         => /\ calls'[c].result = AuthenticationError
            /\ calls'[c].stack = <<>>
            /\ calls'[c].nreq = calls[c].nreq
            /\ calls'[c].slept = calls[c].slept
            /\ calls'[c].signins = 1
                  => (calls'[c].gets = 1 /\ calls'[c].slept = 0)]_vars

C7_Witness ==
    \E c \in Calls :
        /\ calls[c].op \in GetOps
        /\ calls[c].authFail.raised
        /\ calls[c].result = AuthenticationError
        /\ calls[c].signins = 1
        /\ calls[c].gets = 1

\* the chain of pages the server holds, followed from url
RECURSIVE ChainFrom(_, _)
ChainFrom(pg, url) ==
    IF ~Truthy(url) \/ url \notin DOMAIN pg THEN <<>>
    ELSE <<url>> \o ChainFrom(pg, pg[url].next_page_url)

\* the numeric prefix of each datapoint value, in tenths
PrefixTenths(v) ==
    CASE v = Str15kWh -> 15 [] v = Str20kWh -> 20 [] v = Str05Wh -> 5 [] v = Str3kWh -> 30

RECURSIVE PrefixSum(_)
PrefixSum(datapoints) ==
    IF datapoints = <<>> THEN 0
    ELSE PrefixTenths(Head(datapoints)) + PrefixSum(Tail(datapoints))

RECURSIVE ChainSum(_, _)
ChainSum(pg, chain) ==
    IF chain = <<>> THEN 0
    ELSE PrefixSum(pg[Head(chain)].datapoints) + ChainSum(pg, Tail(chain))

IsPrefix(s, t) == Len(s) <= Len(t) /\ SubSeq(t, 1, Len(s)) = s

\* C8: an hourly aggregation over a chain of n pages, no request failing,
\* sends one GET per page in chain order, n in all, stops at the page without
\* next_page_url and returns the sum of the numeric prefixes of all n pages.
C8_HourlySumsEveryPage ==
    \A c \in Calls :
        LET k == calls[c]
            chain == ChainFrom(pages, HourlyUri(Dsn, EnergyType))
        IN  (k.op = "get_hourly_energy_usage" /\ k.clean)
                => /\ k.opGets = Len(k.visited)
                   /\ IsPrefix(k.visited, chain)
                   /\ k.result = "none" => k.lastReq.uri = k.visited[Len(k.visited)]
                   /\ k.result # "none"
                        => /\ k.result = "returned"
                           /\ k.visited = chain
                           /\ k.opGets = Len(chain)
                           /\ k.rettotal = <<ChainSum(pages, chain)>>

C8_Witness ==
    \E c \in Calls :
        /\ calls[c].op = "get_hourly_energy_usage"
        /\ calls[c].clean
        /\ calls[c].result = "returned"
        /\ Len(calls[c].visited) = MaxPages
        /\ calls[c].opGets = MaxPages
        /\ calls[c].rettotal # <<0>>

\* C9: when the GET of a page of an hourly aggregation fails, the aggregation
\* fails with the error of that GET, returns no total and requests no further
\* page.
C9_HourlyFailsWhole ==
    \A c \in Calls :
        LET k == calls[c]
        IN  (k.op = "get_hourly_energy_usage" /\ k.result \notin {"none", "returned"})
                => /\ k.result \in Errors
                   /\ k.rettotal = <<>>
                   /\ k.stack = <<>>
                   /\ k.nreq = k.nresp
                   /\ k.lastResp.status \notin {200, 401} <=> k.result = HTTPError
                   /\ k.authFail.raised <=> k.result = AuthenticationError
                   /\ k.lastResp.status = 401 <=> k.result = UnknownError
                   /\ k.lastReq.uri \in {SignInUri, k.visited[Len(k.visited)]}

C9_Witness ==
    \E c \in Calls :
        /\ calls[c].op = "get_hourly_energy_usage"
        /\ calls[c].result = UnknownError
        /\ Len(calls[c].visited) = 2
        /\ calls[c].total > 0
        /\ calls[c].lastReq.verb = "GET"
        /\ calls[c].rettotal = <<>>

\* C10: the lookup returns 4 modes without HYBRID_PLUS for the three excluded
\* model numbers and 5 modes with HYBRID_PLUS for every other model string;
\* every mode returned is valid and none is returned twice.
C10_HeatingModes ==
    heating_modes # <<>>
        => LET n == Len(heating_modes)
               excluded == appliance_model \in
                   {"RE2H50S10-1NCWT", "RE2H65T10-1NCWT", "RE2H80T10-1NCWT"}
               plus == \E i \in 1..n : heating_modes[i] = HYBRID_PLUS
           IN  /\ excluded => (n = 4 /\ ~plus)
               /\ ~excluded => (n = 5 /\ plus)
               /\ \A i \in 1..n : is_valid(heating_modes[i])
               /\ \A i, j \in 1..n : heating_modes[i] = heating_modes[j] => i = j

C10_Witness ==
    /\ appliance_model = "RE2H80T10-1NCWT"
    /\ Len(heating_modes) = 4

\* C11: in a top-level GET call a wait occurs only between attempts of the one
\* outer retry policy, so the call waits at most 5 times (50 units), and the
\* request re-sent after login never sleeps and never runs a second attempt
\* of its own.
C11_WaitsOnlyInOuterPolicy ==
    \A c \in Calls :
        LET k == calls[c]
        IN  k.op \in GetOps
                => /\ k.slept <= (max_attempt_number - 1) * wait_fixed
                   /\ \A i \in 1..Len(k.stack) :
                         k.stack[i].retrying
                             => k.stack[i].attempt = 1 /\ k.stack[i].st # "sleep"

\* the operations whose top-level http call is a POST to the device API
PostOps == {"set_device_heat_mode", "update_device_set_point"}

\* C12: a device-API POST never waits and sends at most two POSTs; when its
\* second POST, sent after re-authentication, is answered 401 too, it has
\* failed with UnknownError and sends nothing more, after exactly one
\* authenticate() and one sign-in request when the sign-in returned its token
\* at once.
C12_PostNotRetried ==
    \A c \in Calls :
        LET k == calls[c]
        IN  k.op \in PostOps
                => /\ k.slept = 0
                   /\ k.posts <= 2
                   /\ \A i \in 1..Len(k.stack) :
                         k.stack[i].st # "sleep" /\ k.stack[i].attempt <= 1
                   /\ (/\ k.posts = 2
                       /\ k.lastResp.uri # SignInUri
                       /\ k.lastResp.status = 401)
                      => /\ k.result = UnknownError
                         /\ k.stack = <<>>
                         /\ k.nreq = k.nresp
                         /\ k.lastReq.verb = "POST"
                         /\ k.lastReq.retrying
                         /\ k.s401 = 0 => k.auths = 1 /\ k.signins = 1

C12_Witness ==
    \E c \in Calls :
        /\ calls[c].op = "set_device_heat_mode"
        /\ calls[c].posts = 2
        /\ calls[c].lastResp.uri # SignInUri
        /\ calls[c].lastResp.status = 401
        /\ calls[c].result = UnknownError
        /\ calls[c].auths = 1
        /\ calls[c].signins = 1

\* the step completes a sign-in of call c whose response carries access_token
SignInCompletes(c) ==
    /\ calls'[c].nresp = calls[c].nresp + 1
    /\ calls'[c].lastResp.uri = SignInUri
    /\ calls'[c].lastResp.status = 200
    /\ calls'[c].lastResp.body.access_token # None

\* C13: a step that completes a sign-in whose response carries access_token
\* sets the token to that access_token, whatever it was before, and no other
\* step changes the token.
C13_TokenWrittenBySignIn ==
    [][/\ \A c \in DOMAIN calls :
            SignInCompletes(c) => token' = calls'[c].lastResp.body.access_token
       /\ token' # token => \E c \in DOMAIN calls : SignInCompletes(c)]_vars

C13_Witness ==
    \E c \in DOMAIN calls :
        /\ calls[c].op = "authenticate"
        /\ calls[c].result = "returned"
        /\ calls[c].lastReq.token = "t1"
        /\ calls[c].lastResp.body.access_token = "t2"
        /\ token = "t2"

\* C17: in an hourly aggregation, whatever GETs were re-sent after a 401 or
\* re-attempted by the retry policy, the pages requested so far are a prefix
\* of the chain, the total is the sum of the pages before the one being
\* requested, each added once, and a returned total is the sum of every page
\* of the chain.
C17_EveryPageOnce ==
    \A c \in Calls :
        LET k == calls[c]
            chain == ChainFrom(pages, HourlyUri(Dsn, EnergyType))
        IN  k.op = "get_hourly_energy_usage"
                => /\ IsPrefix(k.visited, chain)
                   /\ k.result # "returned"
                        => /\ k.total = ChainSum(pages, SubSeq(k.visited, 1, Len(k.visited) - 1))
                           /\ k.rettotal = <<>>
                   /\ k.result = "returned"
                        => /\ k.visited = chain
                           /\ k.total = ChainSum(pages, chain)
                           /\ k.rettotal = <<ChainSum(pages, chain)>>

C17_Witness ==
    \E c \in Calls :
        /\ calls[c].op = "get_hourly_energy_usage"
        /\ calls[c].result = "returned"
        /\ Len(calls[c].visited) = MaxPages
        /\ calls[c].opAuths >= 2
        /\ calls[c].slept > 0
        /\ calls[c].gets >= 4
        /\ calls[c].rettotal # <<0>>

----------------------------------------------------------------------------
(* One caller making top-level GET calls against a server that answers every
   request: a response arrives for every request awaited and every sleep of
   the retry decorator ends. *)

NextGet ==
    \E c \in Calls :
        \/ GetDevices(c)
        \/ GetResponse(c)
        \/ SignInResponse(c)
        \/ WakeUp(c)
        \/ Finish(c)

Responds ==
    \A c \in Calls :
        /\ WF_vars(GetResponse(c))
        /\ WF_vars(SignInResponse(c))
        /\ WF_vars(WakeUp(c))

SpecGet == Init /\ [][NextGet]_vars /\ Responds

\* the most GETs one top-level call sends: each outer attempt sends the first
\* GET and up to max_attempt_number GETs after its login
MostGets == max_attempt_number * (1 + max_attempt_number)
\* the most sleeps: one between two attempts, of the outer call and of each
\* call made after login
MostWaits == (max_attempt_number - 1) * (1 + max_attempt_number)

\* C18: while the sign-in endpoint has not answered 401, a top-level GET call
\* has sent at most 42 GETs and 6 sign-in requests and slept at most 35 times,
\* and a call in progress leads to a call that has returned or raised (or to
\* a 401 from the sign-in endpoint).
C18_GetTerminatesBounded ==
    /\ [](\A c \in Calls :
            (calls[c].op \in GetOps /\ calls[c].s401 = 0)
                => /\ calls[c].gets <= MostGets
                   /\ calls[c].signins <= max_attempt_number
                   /\ calls[c].slept <= MostWaits * wait_fixed)
    /\ \A c \in Calls :
          (calls[c].op \in GetOps /\ calls[c].result = "none")
              ~> (calls[c].result # "none" \/ calls[c].s401 > 0)

C18_Witness ==
    \E c \in Calls :
        /\ calls[c].op = "get_devices"
        /\ calls[c].s401 = 0
        /\ calls[c].result = UnknownError
        /\ calls[c].gets = MostGets
        /\ calls[c].signins = max_attempt_number
        /\ calls[c].slept = MostWaits * wait_fixed

----------------------------------------------------------------------------
(* One caller aggregating against a server that verifies the token: the      *)
(* sign-in endpoint hands out a token on every request, and the device API  *)
(* answers 401 exactly to the requests that do not carry the token handed   *)
(* out last.                                                                *)

CarriesIssued(req) ==
    issued # None /\ Authorization(req.headers) = FormatAuth(issued)

StrictApiResponses(req) ==
    {r \in ApiResponses(req.uri) :
        r.status = IF CarriesIssued(req) THEN 200 ELSE 401}

StrictSignInResponses ==
    {[status |-> 200, body |-> [access_token |-> t]] : t \in Tokens}

StrictGetResponse(c) ==
    /\ Awaiting(c, "http_get_request")
    /\ \E response \in StrictApiResponses(calls[c].lastReq) :
         Step(c, http_get_request(Received(Machine(c), response), response))
    /\ UNCHANGED <<pages, issued, appliance_model, heating_modes>>

StrictSignInResponse(c) ==
    /\ Awaiting(c, "http_post_request")
    /\ Top(Machine(c)).uri = SignInUri
    /\ \E response \in StrictSignInResponses :
         /\ Step(c, http_post_request(Received(Machine(c), response), response))
         /\ issued' = Issue(response)
    /\ UNCHANGED <<pages, appliance_model, heating_modes>>

NextStrict ==
    \E c \in Calls :
        \/ Authenticate(c)
        \/ GetHourlyEnergyUsage(c)
        \/ StrictGetResponse(c)
        \/ StrictSignInResponse(c)
        \/ Finish(c)

SpecStrict == Init /\ [][NextStrict]_vars

\* C16: against the server that verifies the token, an hourly aggregation
\* invokes authenticate() at most once, and every page after the first is
\* requested once, with the patched authorization header of the token handed
\* out last.
C16_OneAuthenticatePerAggregation ==
    \A c \in Calls :
        LET k == calls[c]
        IN  k.op = "get_hourly_energy_usage"
                => /\ k.opAuths <= 1
                   /\ k.result \in {"none", "returned"}
                   /\ Len(k.visited) >= 2
                        => /\ k.opAuths = 1
                           /\ k.gets = 1
                           /\ k.lastReq.verb = "GET"
                           /\ k.lastReq.uri = k.visited[Len(k.visited)]
                           /\ ~k.lastReq.retrying
                           /\ CarriesIssued(k.lastReq)

C16_Witness ==
    \E c \in Calls :
        /\ calls[c].op = "get_hourly_energy_usage"
        /\ calls[c].result = "returned"
        /\ Len(calls[c].visited) = MaxPages
        /\ calls[c].opGets = MaxPages + 1
        /\ calls[c].opAuths = 1

----------------------------------------------------------------------------
(* Two operations running concurrently on one client.  A coroutine runs     *)
(* from one await to the next without interruption, so a step of one caller *)
(* is one action; the steps of the two callers interleave freely.  Each     *)
(* caller runs one operation and sends at most MaxConcRequests requests.    *)

Concurrent == {1, 2}

InitConc ==
    /\ token = None
    /\ calls = [c \in Concurrent |-> IdleCall]
    /\ pages = NoPages
    /\ issued = None
    /\ appliance_model = None
    /\ heating_modes = <<>>

\* the step leaves caller c within its requests
Within(c) == calls'[c].nreq <= MaxConcRequests

NextConc ==
    \E c \in Concurrent :
        \/ GetDevices(c) /\ Within(c)
        \/ SetDeviceHeatMode(c) /\ Within(c)
        \/ GetResponse(c) /\ Within(c)
        \/ PostResponse(c) /\ Within(c)
        \/ SignInResponse(c) /\ Within(c)
        \/ WakeUp(c) /\ Within(c)

SpecConc == InitConc /\ [][NextConc]_vars

\* C14: with two operations running concurrently, a caller whose first
\* request was answered 401 has invoked authenticate() itself and has its own
\* sign-in request in flight, whatever the other caller is doing, and the
\* token is at all times the access_token of the sign-in that completed last.
C14_NoSingleFlight ==
    /\ \A c \in DOMAIN calls :
          LET k == calls[c]
          IN  (k.nresp = 1 /\ k.lastResp.uri # SignInUri /\ k.lastResp.status = 401)
                  => /\ k.auths = 1
                     /\ k.signins = 1
                     /\ k.result = "none"
                     /\ k.lastReq.uri = SignInUri
                     /\ Top([call |-> k]).fn = "http_post_request"
                     /\ Top([call |-> k]).st = "await"
    /\ token = issued

C14_Witness ==
    /\ \A c \in Concurrent :
          /\ calls[c].auths = 1
          /\ calls[c].signins = 1
          /\ calls[c].result = "returned"
    /\ calls[1].signed = "t1"
    /\ calls[1].lastReq.token = "t1"
    /\ calls[2].signed = "t2"
    /\ calls[2].lastReq.token = "t2"
    /\ token = "t2"

\* C15: in every interleaving of two concurrent operations, the request a
\* call has sent last with retrying_after_login = true carries
\* authorization = "auth_token t", t the access_token of the latest sign-in
\* response to this same call, whatever the client's token is by now.
C15_RetryCarriesOwnSignIn ==
    \A c \in DOMAIN calls :
        LET k == calls[c]
        IN  (k.result = "none" /\ k.lastReq.retrying)
                => /\ k.signed # None
                   /\ Authorization(k.lastReq.headers) = FormatAuth(k.signed)

C15_Witness ==
    /\ calls[1].result = "none"
    /\ calls[1].lastReq.retrying
    /\ calls[1].lastReq.uri = DevicesUri
    /\ calls[1].signed = "t1"
    /\ Authorization(calls[1].lastReq.headers) = FormatAuth("t1")
    /\ calls[2].signed = "t2"
    /\ token = "t2"

====
